---- MODULE Spec2Model ----
(***************************************************************************)
(* dkm::kmeans_lloyd (include/dkm.hpp): k-means++ initialisation followed  *)
(* by Lloyd's loop, as a state machine.                                    *)
(*                                                                         *)
(* The scalar type T is modelled as exact arithmetic.  Every scalar is     *)
(* held as an integer multiple of 1/Scale; Scale is divisible by every     *)
(* possible cluster population, so the divisions of calculate_means are    *)
(* exact.  Cluster ids are 0-based as in the code; sequences are 1-based,  *)
(* so cluster id c names means[c + 1].                                     *)
(***************************************************************************)
EXTENDS Integers, Sequences, FiniteSets

\* ------------------------------------------------------------- bounds
\* the longest generic dataset, the largest coordinate of its points, and the
\* largest maxIter of a generic call
MaxLen == 3
MaxCoord == 2
MaxIter == 2

\* template parameter N: the dimension of every point and mean
N == 1

RECURSIVE Gcd(_, _)
Gcd(a, b) == IF b = 0 THEN a ELSE Gcd(b, a % b)

RECURSIVE LcmUpTo(_)
LcmUpTo(n) == IF n <= 1 THEN 1 ELSE (LcmUpTo(n - 1) * n) \div Gcd(LcmUpTo(n - 1), n)

Max(a, b) == IF a >= b THEN a ELSE b
Min(a, b) == IF a <= b THEN a ELSE b

\* the longest dataset of the model: the generic ones and the two fixed ones below
LongestData == Max(MaxLen, 5)
Scale == LcmUpTo(LongestData)

\* the point whose every component is the number c
P(c) == [j \in 1..N |-> c * Scale]

Coords == 0..MaxCoord
Points == [1..N -> {c * Scale : c \in Coords}]

RECURSIVE SeqsUpTo(_, _)
SeqsUpTo(S, n) ==
    IF n = 0 THEN {<<>>}
    ELSE LET shorter == SeqsUpTo(S, n - 1)
         IN  shorter \cup {Append(s, x) : s \in {t \in shorter : Len(t) = n - 1}, x \in S}

Datasets == SeqsUpTo(Points, MaxLen)
\* the dataset of the concrete scenario: [[0],[1],[10],[11]]
ScenarioData == <<P(0), P(1), P(10), P(11)>>
\* a dataset on which two means drift in opposite directions: [[0],[1],[3],[4],[6]]
DriftData == <<P(0), P(1), P(3), P(4), P(6)>>

\* the seeds a caller passes; -1 is the "no seed" default of the signature
Seeds == {-1, 0}
\* the values std::random_device may return
DeviceSeeds == {0, 1}
\* the epsilons a caller passes (in units of 1, not of 1/Scale)
Epsilons == {0, 1}

VARIABLES
    data, k, maxIter, seed, epsilon,   \* the arguments of kmeans_lloyd
    pc,                                \* position in kmeans_lloyd / random_plusplus
    rand_engine,                       \* <<>> before construction, then <<seed, draws made>>
    stream,                            \* per engine seed, the draws its stream has produced so far
    means, old_means, clusters, count, \* the locals of kmeans_lloyd
    over,                              \* the last "point_collection_epsilon(...) > epsilon"
    run, first                         \* invocation number; the first invocation's outcome

vars == <<data, k, maxIter, seed, epsilon, pc, rand_engine, stream,
          means, old_means, clusters, count, over, run, first>>

args == <<data, k, maxIter, seed, epsilon>>

\* ------------------------------------------------------------- distance
RECURSIVE distance_squared_from(_, _, _)
distance_squared_from(point_a, point_b, i) ==
    IF i > N THEN 0
    ELSE LET delta == point_a[i] - point_b[i]
         IN  delta * delta + distance_squared_from(point_a, point_b, i + 1)

distance_squared(point_a, point_b) == distance_squared_from(point_a, point_b, 1)

\* ------------------------------------------------------------- k-means++ initialiser
\* closest_distance: per data point, the smallest squared distance to a mean
RECURSIVE closest_scan(_, _, _, _)
closest_scan(d, ms, i, closest) ==
    IF i > Len(ms) THEN closest
    ELSE LET distance == distance_squared(d, ms[i])
         IN  closest_scan(d, ms, i + 1, IF distance < closest THEN distance ELSE closest)

closest_distance(ms, dat, kk) ==
    [i \in 1..Len(dat) |-> closest_scan(dat[i], ms, 1, distance_squared(dat[i], ms[1]))]

\* the indices std::uniform_int_distribution(0, size - 1) can return
uniform_support(size) == 0..(size - 1)

\* a sampler that ignores the weights
discrete_support_unweighted(weights) == 0..(Len(weights) - 1)

\* the indices std::discrete_distribution can return for the given weights: an
\* index of positive weight; with no positive weight the distribution is outside
\* its contract and the code itself expects a result as large as the size
discrete_support(weights) ==
    IF \E i \in 1..Len(weights) : weights[i] > 0
    THEN {i - 1 : i \in {j \in 1..Len(weights) : weights[j] > 0}}
    ELSE 0..Len(weights)

\* lines 138-143: an index equal to the number of weights is replaced by 0
clamp_index(index, size) == IF index = size THEN 0 ELSE index

\* the assertions without the one on maxIter
preconditions_without_iterations(size, kk, mi) == kk > 0 /\ size >= kk

\* the three assertions at the head of kmeans_lloyd
preconditions(size, kk, mi) == kk > 0 /\ mi > 0 /\ size >= kk

\* ------------------------------------------------------------- assignment step
RECURSIVE closest_mean_scan(_, _, _, _, _)
closest_mean_scan(point, ms, i, smallest_distance, index) ==
    IF i > Len(ms) THEN index
    ELSE LET distance == distance_squared(point, ms[i])
         IN  IF distance < smallest_distance
             THEN closest_mean_scan(point, ms, i + 1, distance, i - 1)
             ELSE closest_mean_scan(point, ms, i + 1, smallest_distance, index)

\* the scan with "<=" for "<": the last of several nearest means wins
RECURSIVE closest_mean_scan_last(_, _, _, _, _)
closest_mean_scan_last(point, ms, i, smallest_distance, index) ==
    IF i > Len(ms) THEN index
    ELSE LET distance == distance_squared(point, ms[i])
         IN  IF distance <= smallest_distance
             THEN closest_mean_scan_last(point, ms, i + 1, distance, i - 1)
             ELSE closest_mean_scan_last(point, ms, i + 1, smallest_distance, index)

closest_mean_last(point, ms) ==
    closest_mean_scan_last(point, ms, 2, distance_squared(point, ms[1]), 0)

\* the scan returning the 1-based position of the nearest mean
closest_mean_one_based(point, ms) ==
    closest_mean_scan(point, ms, 2, distance_squared(point, ms[1]), 0) + 1

closest_mean(point, ms) ==
    closest_mean_scan(point, ms, 2, distance_squared(point, ms[1]), 0)

calculate_clusters(dat, ms) == [i \in 1..Len(dat) |-> closest_mean(dat[i], ms)]

\* ------------------------------------------------------------- mean-update step
\* the first loop of calculate_means: per-cluster component sums and counts
RECURSIVE accumulate(_, _, _, _, _)
accumulate(dat, cl, i, sums, cnt) ==
    IF i > Min(Len(cl), Len(dat)) THEN [sums |-> sums, cnt |-> cnt]
    ELSE LET c == cl[i] + 1
         IN  accumulate(dat, cl, i + 1,
                        [sums EXCEPT ![c] = [j \in 1..N |-> @[j] + dat[i][j]]],
                        [cnt EXCEPT ![c] = @ + 1])

\* the second loop without the old_means branch: an empty cluster keeps its zero sum
finish_mean_no_restore(sum, cnt, old_mean) ==
    IF cnt = 0 THEN sum ELSE [j \in 1..N |-> sum[j] \div cnt]

\* the second loop: an empty cluster keeps its old mean, the others are averaged
finish_mean(sum, cnt, old_mean) ==
    IF cnt = 0 THEN old_mean ELSE [j \in 1..N |-> sum[j] \div cnt]

calculate_means(dat, cl, oldm, kk) ==
    LET acc == accumulate(dat, cl, 1, [c \in 1..kk |-> [j \in 1..N |-> 0]],
                          [c \in 1..kk |-> 0])
    IN  [c \in 1..kk |-> finish_mean(acc.sums[c], acc.cnt[c], oldm[c])]

\* ------------------------------------------------------------- convergence check
\* the accumulator of one centroid before its division by the number of points;
\* `garbage` is the indeterminate value the uninitialised array starts with
RECURSIVE sum_component(_, _, _)
sum_component(points, dim, i) ==
    IF i > Len(points) THEN 0 ELSE points[i][dim] + sum_component(points, dim, i + 1)

centroid_sum(points, garbage) ==
    [dim \in 1..N |-> garbage[dim] + sum_component(points, dim, 1)]

\* point_collection_epsilon, returned exactly: the square of
\* (number of points * Scale * distance between the two centroids)
point_collection_epsilon(point_a, point_b, garbage_a, garbage_b) ==
    distance_squared(centroid_sum(point_a, garbage_a), centroid_sum(point_b, garbage_b))

\* the loop test "point_collection_epsilon(means, old_means) > epsilon"
exceeds(d, size, eps) == d > (eps * size * Scale) * (eps * size * Scale)

ZeroVec == [dim \in 1..N |-> 0]

\* Representatives of the indeterminate starting values of means_a and means_b
\* (the arrays are declared without an initialiser and then added to): both zero
\* (the value an initialised array would have), a pair that makes the two
\* centroids coincide, and a pair that puts them further apart than any epsilon.
indeterminate(point_a, point_b) ==
    LET sa == centroid_sum(point_a, ZeroVec)
        sb == centroid_sum(point_b, ZeroVec)
        beyond == 1 + CHOOSE e \in Epsilons : \A f \in Epsilons : f <= e
        cancel == [dim \in 1..N |-> sb[dim] - sa[dim]]
        far == [dim \in 1..N |-> cancel[dim] + beyond * Len(point_a) * Scale]
    IN  {<<ZeroVec, ZeroVec>>, <<cancel, ZeroVec>>, <<far, ZeroVec>>}

\* ------------------------------------------------------------- the state machine
EngineSeeds == (Seeds \ {-1}) \cup DeviceSeeds

\* the calls of the model: every generic dataset with every k, maxIter and
\* epsilon, the concrete scenario of the specification, and the drift dataset
Inputs ==
    [data : Datasets, k : 0..MaxLen, maxIter : (-1)..MaxIter,
     seed : {0}, epsilon : Epsilons]
    \cup
    [data : {ScenarioData}, k : {2}, maxIter : {100}, seed : Seeds, epsilon : {0}]
    \cup
    [data : {DriftData}, k : {3}, maxIter : {3}, seed : Seeds, epsilon : {0}]

Entry ==
    /\ pc = "call"
    /\ rand_engine = <<>>
    /\ means = <<>>
    /\ old_means = <<>>
    /\ clusters = <<>>
    /\ count = 0
    /\ over = FALSE

Init ==
    /\ \E in \in Inputs :
          /\ data = in.data
          /\ k = in.k
          /\ maxIter = in.maxIter
          /\ seed = in.seed
          /\ epsilon = in.epsilon
    /\ Entry
    /\ stream = [s \in EngineSeeds |-> <<>>]
    /\ run = 1
    /\ first = <<>>

\* lines 237-239: a failed assertion aborts the call
Call ==
    /\ pc = "call"
    /\ pc' = IF preconditions(Len(data), k, maxIter) THEN "seed" ELSE "aborted"
    /\ UNCHANGED <<args, rand_engine, stream, means, old_means, clusters, count,
                   over, run, first>>

\* lines 113-119: the engine is seeded with the argument, or from the random
\* device when the argument is -1
SeedEngine ==
    /\ pc = "seed"
    /\ \E s \in (IF seed = -1 THEN DeviceSeeds ELSE {seed}) :
          rand_engine' = <<s, 0>>
    /\ pc' = "first"
    /\ UNCHANGED <<args, stream, means, old_means, clusters, count, over, run, first>>

\* One draw of the engine through a distribution with the given support.  The
\* engine is a deterministic function of its seed: a position of the stream that
\* an engine with the same seed has produced before yields the same draw again.
Draw(index, support) ==
    LET s == rand_engine[1]
        pos == rand_engine[2]
    IN  /\ IF pos < Len(stream[s])
           THEN index = stream[s][pos + 1] /\ UNCHANGED stream
           ELSE index \in support /\ stream' = [stream EXCEPT ![s] = Append(@, index)]
        /\ rand_engine' = <<s, pos + 1>>

\* lines 121-125: the first mean is drawn uniformly from the data
FirstMean ==
    /\ pc = "first"
    /\ \E index \in uniform_support(Len(data)) :
          /\ Draw(index, uniform_support(Len(data)))
          /\ means' = <<data[index + 1]>>
    /\ pc' = IF k > 1 THEN "next" ELSE "assign"
    /\ UNCHANGED <<args, old_means, clusters, count, over, run, first>>

\* lines 127-144: one more mean, drawn with the closest distances as weights
NextMean ==
    /\ pc = "next"
    /\ LET distances == closest_distance(means, data, k)
       IN  \E index \in 0..Len(distances) :
              /\ Draw(index, discrete_support(distances))
              /\ means' = Append(means, data[clamp_index(index, Len(distances)) + 1])
    /\ pc' = IF Len(means) + 1 < k THEN "next" ELSE "assign"
    /\ UNCHANGED <<args, old_means, clusters, count, over, run, first>>

\* line 247
Assign ==
    /\ pc = "assign"
    /\ clusters' = calculate_clusters(data, means)
    /\ pc' = "update"
    /\ UNCHANGED <<args, rand_engine, stream, means, old_means, count, over, run, first>>

\* the two statements swapped: old_means is a copy of the new means
update_means_swapped(dat, cl, ms, kk) ==
    [old_means |-> calculate_means(dat, cl, ms, kk), means |-> calculate_means(dat, cl, ms, kk)]

\* lines 248-249: the means are saved, then replaced
update_means(dat, cl, ms, kk) ==
    [old_means |-> ms, means |-> calculate_means(dat, cl, ms, kk)]

\* lines 248-250
Update ==
    /\ pc = "update"
    /\ old_means' = update_means(data, clusters, means, k).old_means
    /\ means' = update_means(data, clusters, means, k).means
    /\ count' = count + 1
    /\ pc' = "check"
    /\ UNCHANGED <<args, rand_engine, stream, clusters, over, run, first>>

\* the loop test with "<=" for "<"
continue_one_more(d, size, eps, cnt, mi) == exceeds(d, size, eps) /\ cnt <= mi

\* line 251: the loop test
continue(d, size, eps, cnt, mi) == exceeds(d, size, eps) /\ cnt < mi

Check ==
    /\ pc = "check"
    /\ \E g \in indeterminate(means, old_means) :
          LET d == point_collection_epsilon(means, old_means, g[1], g[2])
          IN  /\ over' = exceeds(d, Len(means), epsilon)
              /\ pc' = IF continue(d, Len(means), epsilon, count, maxIter)
                       THEN "assign" ELSE "done"
    /\ UNCHANGED <<args, rand_engine, stream, means, old_means, clusters, count,
                   run, first>>

\* the caller invokes kmeans_lloyd a second time with the same arguments
Reinvoke ==
    /\ pc = "done"
    /\ run = 1
    /\ run' = 2
    /\ first' = <<means, clusters>>
    /\ pc' = "call"
    /\ rand_engine' = <<>>
    /\ means' = <<>>
    /\ old_means' = <<>>
    /\ clusters' = <<>>
    /\ count' = 0
    /\ over' = FALSE
    /\ UNCHANGED <<args, stream>>

Next ==
    \/ Call
    \/ SeedEngine
    \/ FirstMean
    \/ NextMean
    \/ Assign
    \/ Update
    \/ Check

\* one invocation of kmeans_lloyd
Spec == Init /\ [][Next]_vars

NextTwice ==
    \/ Call
    \/ SeedEngine
    \/ FirstMean
    \/ NextMean
    \/ Assign
    \/ Update
    \/ Check
    \/ Reinvoke

\* two invocations with the same arguments
SpecTwice == Init /\ [][NextTwice]_vars

\* ------------------------------------------------------------- properties
\* helpers of the properties, stated without the operators of the model
RECURSIVE SumOver(_, _, _)
SumOver(dat, idxs, j) ==
    IF idxs = {} THEN 0
    ELSE LET i == CHOOSE x \in idxs : TRUE
         IN  dat[i][j] + SumOver(dat, idxs \ {i}, j)

Members(cl, c) == {i \in 1..Len(cl) : cl[i] = c}

\* c is the lowest index of a mean nearest to point p
LowestNearest(c, p, ms) ==
    /\ c \in 0..(Len(ms) - 1)
    /\ \A m \in 1..Len(ms) : distance_squared(p, ms[c + 1]) <= distance_squared(p, ms[m])
    /\ \A m \in 1..c : distance_squared(p, ms[m]) > distance_squared(p, ms[c + 1])

Valid == k > 0 /\ maxIter > 0 /\ Len(data) >= k

\* C1: a call with valid inputs returns k means and one cluster id in [0, k) per
\* dataset point.
C1_ResultShape ==
    (Valid /\ pc = "done") =>
        /\ Len(means) = k
        /\ Len(clusters) = Len(data)
        /\ \A i \in 1..Len(clusters) : clusters[i] \in 0..(k - 1)

C1_Witness ==
    /\ pc = "done"
    /\ k >= 2
    /\ Len(data) > k
    /\ \E i, j \in 1..Len(clusters) : clusters[i] # clusters[j]

\* C3: at return the labels are the nearest-mean assignment against old_means (the
\* means before the final update) and the returned means are the mean update of
\* exactly those labels; every pass goes assign, update, check.
C3_AssignUpdateCheck ==
    /\ [](pc = "done" =>
            /\ clusters = calculate_clusters(data, old_means)
            /\ means = calculate_means(data, clusters, old_means, k))
    /\ [][/\ pc = "assign" => pc' = "update"
          /\ pc = "update" => pc' = "check"
          /\ pc = "check" => pc' \in {"assign", "done"}]_vars

\* a return whose labels differ from the assignment against the returned means
C3_Witness ==
    /\ pc = "done"
    /\ means # old_means
    /\ clusters # calculate_clusters(data, means)

\* C5: with k = 0, maxIter <= 0 or fewer than k points the call aborts at once:
\* no engine, no draw, no mean, no label, no pass, no result.
C5_PreconditionFailure ==
    (k = 0 \/ maxIter <= 0 \/ Len(data) < k) =>
        /\ pc \in {"call", "aborted"}
        /\ rand_engine = <<>>
        /\ \A s \in EngineSeeds : stream[s] = <<>>
        /\ means = <<>>
        /\ old_means = <<>>
        /\ clusters = <<>>
        /\ count = 0

C5_Witness ==
    /\ pc = "aborted"
    /\ k > 0
    /\ Len(data) >= k
    /\ maxIter <= 0

\* C7: after a mean update, a cluster without points keeps its previous mean and
\* every other cluster's mean is the component-wise sum of its points divided by
\* their number.
C7_MeanUpdate ==
    pc = "check" =>
        \A c \in 0..(k - 1) :
            LET members == Members(clusters, c)
            IN  IF members = {}
                THEN means[c + 1] = old_means[c + 1]
                ELSE \A j \in 1..N :
                        means[c + 1][j] * Cardinality(members) = SumOver(data, members, j)

C7_Witness ==
    /\ pc = "check"
    /\ \E c \in 0..(k - 1) : Members(clusters, c) = {} /\ old_means[c + 1] # ZeroVec
    /\ \E c \in 0..(k - 1) : Cardinality(Members(clusters, c)) >= 2

\* C10: the assignment step gives every point the lowest index among the means
\* nearest to it, and changes neither the dataset nor the means.
C10_Assignment ==
    [][pc = "assign" =>
          /\ data' = data
          /\ means' = means
          /\ Len(clusters') = Len(data)
          /\ \A i \in 1..Len(data) : LowestNearest(clusters'[i], data[i], means)]_vars

\* a point with two different means at the same smallest distance has been labelled
C10_Witness ==
    /\ pc = "update"
    /\ \E i \in 1..Len(data) : \E a, b \in 1..Len(means) :
          /\ a < b
          /\ means[a] # means[b]
          /\ clusters[i] = a - 1
          /\ distance_squared(data[i], means[a]) = distance_squared(data[i], means[b])

\* one invocation, which is never suspended: a step that can be taken is taken
FairSpec == Spec /\ WF_vars(Next)

CentroidShift(a, b) == point_collection_epsilon(a, b, ZeroVec, ZeroVec)

\* one more pass from the returned means: assignment, then mean update
NextPassMeans == calculate_means(data, calculate_clusters(data, means), means, k)

\* C6 as stated: with epsilon = 0, a return caused by a zero mean-shift (and not by
\* maxIter) leaves means from which one more assignment and update pass has
\* zero mean-shift.
C6_ZeroShiftIsFixedPoint ==
    (/\ pc = "done"
     /\ epsilon = 0
     /\ count < maxIter
     /\ ~over
     /\ CentroidShift(means, old_means) = 0)
    => CentroidShift(NextPassMeans, means) = 0

\* C6 amended: a return whose final update changed no mean leaves a fixed point:
\* every returned mean that is the lowest nearest mean of some dataset point is
\* the average of the points it is the lowest nearest mean of, so that one more
\* assignment and update pass reproduces the returned means.
C6_UnchangedMeansAreFixedPoint ==
    (pc = "done" /\ means = old_means) =>
        /\ \A c \in 0..(k - 1) :
              LET near == {i \in 1..Len(data) : LowestNearest(c, data[i], means)}
              IN  near # {} =>
                     \A j \in 1..N :
                        means[c + 1][j] * Cardinality(near) = SumOver(data, near, j)
        /\ NextPassMeans = means
        /\ CentroidShift(NextPassMeans, means) = 0

\* a return after two or more passes with every mean in place and a shared cluster
C6_Witness ==
    /\ pc = "done"
    /\ means = old_means
    /\ count >= 2
    /\ k >= 2
    /\ \E c \in 0..(k - 1) : Cardinality(Members(clusters, c)) >= 2

Distinct(dat) == \A i, j \in 1..Len(dat) : i # j => dat[i] # dat[j]

\* C8: with k equal to the dataset length and pairwise distinct points, the
\* initialiser picks every dataset point exactly once and the returned
\* assignment gives every cluster exactly one point.
C8_OnePointPerCluster ==
    (Valid /\ k = Len(data) /\ Distinct(data)) =>
        /\ (pc = "assign" /\ count = 0) =>
              \A i \in 1..Len(data) : Cardinality({c \in 1..Len(means) : means[c] = data[i]}) = 1
        /\ pc = "done" =>
              \A c \in 0..(k - 1) : Cardinality(Members(clusters, c)) = 1

C8_Witness ==
    /\ pc = "done"
    /\ k = Len(data)
    /\ k >= 3
    /\ Distinct(data)

\* C4: a second invocation with the same dataset, k, maxIter, epsilon and explicit
\* seed returns the same means and the same labels as the first (stated for the
\* seeds other than -1, the value the signature uses for "no seed").
C4_SeededDeterminism ==
    (run = 2 /\ pc = "done" /\ seed # -1) => <<means, clusters>> = first

\* C9: on [[0],[1],[10],[11]] with k = 2, maxIter = 100, epsilon = 0 the call
\* returns the means [0.5] and [10.5] in either order, [0] and [1] sharing one
\* label and [10] and [11] the other.
C9_Scenario ==
    (/\ pc = "done"
     /\ data = ScenarioData
     /\ k = 2
     /\ maxIter = 100
     /\ epsilon = 0)
    => /\ \/ means = <<[j \in 1..N |-> Scale \div 2], [j \in 1..N |-> 21 * (Scale \div 2)]>>
          \/ means = <<[j \in 1..N |-> 21 * (Scale \div 2)], [j \in 1..N |-> Scale \div 2]>>
       /\ clusters[1] = clusters[2]
       /\ clusters[3] = clusters[4]
       /\ clusters[1] # clusters[3]

====
